---- MODULE Spec2Model ----
(***************************************************************************)
(* Model of the printer keep-alive repository.                             *)
(*                                                                         *)
(*   src/keepalive.py   discover_printer_ports,                            *)
(*                      class PrinterKeepAlive (the "strict" engine)       *)
(*   src/winservice.py  discover_printer_ports,                            *)
(*                      class PrinterKeepAliveService (the "service"       *)
(*                      engine, retry for ever with backoff)               *)
(*                                                                         *)
(* One behaviour follows one program: the variable `variant` is chosen in  *)
(* Init and never changes.  "strict" and "service" are one run of the      *)
(* engine's loop together with a controller thread that calls stop() /     *)
(* SvcStop; "scan_cli" and "scan_svc" are one call of the port scan of     *)
(* keepalive.py and of winservice.py; "probe" is one call of                *)
(* test_printer_communication of keepalive.py.                             *)
(***************************************************************************)
EXTENDS Integers, Sequences, FiniteSets, TLC

VARIABLES
    variant,               \* which program this behaviour follows
    pc,                    \* position of the loop thread in run() / main()
    running,               \* PrinterKeepAlive.running
    is_running,            \* PrinterKeepAliveService.is_running
    hWaitStop,             \* the service's auto-reset stop event: signalled?
    stopper,               \* position of the controller inside SvcStop
    consecutive_failures,  \* self.consecutive_failures (both engines)
    last_success,          \* PrinterKeepAlive.last_success: <<>> is None
    start_time,            \* PrinterKeepAlive.start_time: <<>> is "no attribute"
    delay,                 \* the wait requested after the last tick
    now,                   \* the wall clock
    \* history of the run (what was logged / what happened)
    stop_calls,            \* calls of stop() / SvcStop so far
    stopped_reports,       \* "Keep-alive service stopped" log lines so far
    startup_error,         \* "Initial connection test failed" was logged
    last_tick,             \* outcome of the last send_keepalive: none/ok/fail
    escalated,             \* the last tick logged "Max failures ... reached"
    failrun,               \* failed ticks since the last successful tick
    tick_start,            \* clock value when the last tick began
    prev_failures,         \* the failure counter as the last tick found it
    rises,                 \* times the running flag changed false -> true
    falls,                 \* times the running flag changed true -> false
    interrupted,           \* KeyboardInterrupt was caught by the loop
    late_sends,            \* send_keepalive calls made after such a request (counted to 2)
    stop_in_run,           \* a stop was requested once the run had set its flag
    probe_result,          \* test_printer_communication: none, or what it returned
    probe_log,             \* test_printer_communication: <<bytes sent, how the attempt ended>>
    tests,                 \* connectivity tests run() / main() has made
    wait_left,             \* time still to elapse of the wait between ticks
    last_outcome,          \* PrinterKeepAlive: how the last tick ended
    \* port scan
    accepting,             \* the ports of the target that accept a connection
    scan_i,                \* index of the next candidate to try
    open_ports,            \* the list being built
    tried,                 \* the candidates tried so far, in order
    raised                 \* the call raised to its caller

vars == <<variant, pc, running, is_running, hWaitStop, stopper,
          consecutive_failures, last_success, start_time, delay, now,
          stop_calls, stopped_reports, startup_error, last_tick, escalated,
          failrun, tick_start, prev_failures, rises, falls, interrupted,
          late_sends,
          stop_in_run,
          probe_result,
          probe_log,
          tests,
          wait_left,
          last_outcome,
          accepting, scan_i, open_ports, tried, raised>>

scan_vars == <<accepting, scan_i, open_ports, tried, raised>>

----------------------------------------------------------------------------
(* Bounds of the model *)

\* the clock saturates here
MaxTime == 3
\* calls of stop() / SvcStop in one run
MaxStops == 2
\* the service's failure counter is unbounded in the code; ticks fail only
\* while it is below this
MaxFailures == 12
\* the units of time a wait between two ticks lasts
WaitUnits == 2

----------------------------------------------------------------------------
(* Program constants *)

max_failures == 10
interval == 30
error_delay == 5

common_printer_ports == <<9100, 631, 515, 721, 9101, 9102, 9103, 23, 80, 443>>

CandidateSet == {common_printer_ports[i] : i \in 1..Len(common_printer_ports)}

Min(a, b) == IF a <= b THEN a ELSE b

\* the clock values a blocking call may return at: time does not go back
Later == now..Min(now + 1, MaxTime)

----------------------------------------------------------------------------
(* Initial state: both objects as their constructors leave them *)

Init ==
    /\ variant \in {"strict", "service", "scan_cli", "scan_svc", "probe"}
    /\ pc = "idle"
    /\ running = FALSE
    /\ is_running = TRUE
    /\ hWaitStop = FALSE
    /\ stopper = "idle"
    /\ consecutive_failures = 0
    /\ last_success = <<>>
    /\ start_time = <<>>
    /\ delay = 0
    /\ now = 0
    /\ stop_calls = 0
    /\ stopped_reports = 0
    /\ startup_error = FALSE
    /\ last_tick = "none"
    /\ escalated = FALSE
    /\ failrun = 0
    /\ tick_start = 0
    /\ prev_failures = 0
    /\ rises = 0
    /\ falls = 0
    /\ interrupted = FALSE
    /\ late_sends = 0
    /\ stop_in_run = FALSE
    /\ probe_result = "none"
    /\ probe_log = <<>>
    /\ tests = 0
    /\ wait_left = 0
    /\ last_outcome = "none"
    /\ accepting \in (IF variant \in {"scan_cli", "scan_svc"}
                      THEN SUBSET CandidateSet ELSE {{}})
    /\ scan_i = 1
    /\ open_ports = <<>>
    /\ tried = <<>>
    /\ raised = FALSE

----------------------------------------------------------------------------
(* Helpers for the history variables *)

Rose(old, new) == IF ~old /\ new THEN 1 ELSE 0
Fell(old, new) == IF old /\ ~new THEN 1 ELSE 0

----------------------------------------------------------------------------
(* PrinterKeepAlive: the strict engine (src/keepalive.py) *)

\* how a tick of send_keepalive may end: the connect fails, sendall fails,
\* recv raises something other than a timeout (the peer resets), recv times
\* out, or recv returns
TickOutcomes ==
    {"connect_error", "send_error", "read_error", "read_timeout", "response"}

\* mutant: a read timeout is treated as a failure
send_keepalive_ok_needs_reply(outcome) == outcome = "response"

\* send_keepalive, lines 91-112: socket.timeout of recv is swallowed (100-101),
\* every other exception reaches the handler of line 107
send_keepalive_ok(outcome) == outcome \in {"read_timeout", "response"}

\* mutant: a failed tick counts twice
send_keepalive_failures_by_two(cf, ok) == IF ok THEN 0 ELSE cf + 2

\* mutant: a successful tick leaves the counter as it was
send_keepalive_failures_noreset(cf, ok) == IF ok THEN cf ELSE cf + 1

\* send_keepalive: the failure counter after a tick with outcome ok
send_keepalive_failures(cf, ok) == IF ok THEN 0 ELSE cf + 1

\* mutant: the timestamp is taken on a failed tick too
send_keepalive_last_success_always(ls, ok, t) == <<t>>

\* send_keepalive: last_success after a tick with outcome ok that returns at t
send_keepalive_last_success(ls, ok, t) == IF ok THEN <<t>> ELSE ls

\* mutant: the threshold compared with > instead of >=
run_escalates_off_by_one(ok, cf) == ~ok /\ cf > max_failures

\* run, lines 145-154: a failed tick at the threshold logs an error
run_escalates(ok, cf) == ~ok /\ cf >= max_failures

\* mutant: the loop sleeps and goes on whatever the counter
run_after_tick_nobreak(ok, cf) == "sleep"

\* run, lines 145-154: where the loop goes after send_keepalive returned
run_after_tick(ok, cf) == IF run_escalates(ok, cf) THEN "final" ELSE "sleep"

\* run, line 139-141: where run() goes after the initial connection test
run_after_test(ok) == IF ok THEN "loop" ELSE "done"

\* mutant: the loop condition does not look at the flag
run_loop_target_ignores_flag(flag) == "send"

\* run, line 143: the loop condition
run_loop_target(flag) == IF flag THEN "send" ELSE "final"

\* mutant: an unexpected exception ends the loop
run_after_error_exit == "final"

\* run, lines 159-161: where the loop goes when an exception other than
\* KeyboardInterrupt is raised in the try block: the handler sleeps
run_after_error == "errsleep"

\* mutant: stop() flips the flag instead of clearing it
stop_value_toggle(flag) == ~flag

\* stop: the value written to self.running
stop_value(flag) == FALSE

\* get_status: the snapshot returned to the caller
get_status ==
    [running |-> running,
     printer_ip |-> "printer_ip",
     last_success |-> last_success,
     consecutive_failures |-> consecutive_failures,
     uptime |-> IF start_time # <<>> THEN <<now - start_time[1]>> ELSE <<>>]

\* run(), lines 132-136: set the flag, take the start time, log
RunBegin ==
    /\ variant = "strict"
    /\ pc = "idle"
    /\ running' = TRUE
    /\ rises' = rises + Rose(running, TRUE)
    /\ start_time' = <<now>>
    /\ pc' = "test"
    /\ UNCHANGED prev_failures
    /\ UNCHANGED last_outcome
    /\ UNCHANGED wait_left
    /\ UNCHANGED tests
    /\ UNCHANGED probe_log
    /\ UNCHANGED probe_result
    /\ UNCHANGED stop_in_run
    /\ UNCHANGED late_sends
    /\ UNCHANGED <<variant, is_running, hWaitStop, stopper,
                   consecutive_failures, last_success, delay, now, stop_calls,
                   stopped_reports, startup_error, last_tick, escalated,
                   failrun, tick_start, falls, interrupted>>
    /\ UNCHANGED scan_vars

\* run(), lines 139-141 with test_connection (78-87): a blocking connect
\* that succeeds or fails; on failure run() logs and returns
TestConnection ==
    /\ variant = "strict"
    /\ pc = "test"
    /\ \E ok \in BOOLEAN, t \in Later :
          /\ now' = t
          /\ startup_error' = ~ok
          /\ pc' = run_after_test(ok)
    /\ tests' = tests + 1
    /\ UNCHANGED prev_failures
    /\ UNCHANGED last_outcome
    /\ UNCHANGED wait_left
    /\ UNCHANGED probe_log
    /\ UNCHANGED probe_result
    /\ UNCHANGED stop_in_run
    /\ UNCHANGED late_sends
    /\ UNCHANGED <<variant, running, is_running, hWaitStop, stopper,
                   consecutive_failures, last_success, start_time, delay,
                   stop_calls, stopped_reports, last_tick, escalated, failrun,
                   tick_start, rises, falls, interrupted>>
    /\ UNCHANGED scan_vars

\* run(), line 143: while self.running
LoopCheck ==
    /\ variant = "strict"
    /\ pc = "loop"
    /\ pc' = run_loop_target(running)
    /\ UNCHANGED tick_start
    /\ UNCHANGED prev_failures
    /\ UNCHANGED last_outcome
    /\ UNCHANGED wait_left
    /\ UNCHANGED tests
    /\ UNCHANGED probe_log
    /\ UNCHANGED probe_result
    /\ UNCHANGED stop_in_run
    /\ UNCHANGED late_sends
    /\ UNCHANGED <<variant, running, is_running, hWaitStop, stopper,
                   consecutive_failures, last_success, start_time, delay, now,
                   stop_calls, stopped_reports, startup_error, last_tick,
                   escalated, failrun, rises, falls, interrupted>>
    /\ UNCHANGED scan_vars

\* run(), lines 145-152 with send_keepalive (89-112): one tick.  The connect,
\* send and bounded read take time; the tick succeeds or fails.
SendKeepalive ==
    /\ variant = "strict"
    /\ pc = "send"
    /\ \E outcome \in TickOutcomes, t \in Later :
       LET ok == send_keepalive_ok(outcome) IN
          /\ ok \/ consecutive_failures < MaxFailures
          /\ last_outcome' = outcome
          /\ now' = t
          /\ consecutive_failures' =
                 send_keepalive_failures(consecutive_failures, ok)
          /\ last_success' = send_keepalive_last_success(last_success, ok, t)
          /\ prev_failures' = consecutive_failures
          /\ last_tick' = IF ok THEN "ok" ELSE "fail"
          /\ failrun' = IF ok THEN 0 ELSE failrun + 1
          /\ escalated' = run_escalates(ok, consecutive_failures')
          /\ pc' = run_after_tick(ok, consecutive_failures')
    /\ tick_start' = now
    /\ late_sends' = IF stop_in_run THEN Min(late_sends + 1, 2) ELSE late_sends
    /\ delay' = IF pc' = "sleep" THEN interval ELSE delay
    /\ wait_left' = IF pc' = "sleep" THEN WaitUnits ELSE wait_left
    /\ UNCHANGED tests
    /\ UNCHANGED probe_log
    /\ UNCHANGED probe_result
    /\ UNCHANGED stop_in_run
    /\ UNCHANGED <<variant, running, is_running, hWaitStop, stopper,
                   start_time, stop_calls, stopped_reports, startup_error,
                   rises, falls, interrupted>>
    /\ UNCHANGED scan_vars

\* run(), line 154: time passes inside time.sleep(self.interval); nothing
\* but KeyboardInterrupt cuts the sleep short
SleepTick ==
    /\ variant = "strict"
    /\ pc = "sleep"
    /\ wait_left > 0
    /\ wait_left' = wait_left - 1
    /\ \E t \in Later : now' = t
    /\ UNCHANGED tests
    /\ UNCHANGED probe_log
    /\ UNCHANGED probe_result
    /\ UNCHANGED stop_in_run
    /\ UNCHANGED late_sends
    /\ UNCHANGED <<variant, pc, running, is_running, hWaitStop, stopper,
                   consecutive_failures, last_success, start_time, delay,
                   stop_calls, stopped_reports, startup_error, last_tick,
                   escalated, failrun, tick_start, prev_failures, rises, falls,
                   interrupted, last_outcome>>
    /\ UNCHANGED scan_vars

\* run(), line 154: time.sleep(self.interval) returns when the interval is over
Sleep ==
    /\ variant = "strict"
    /\ pc = "sleep"
    /\ wait_left = 0
    /\ \E t \in Later : now' = t
    /\ pc' = "loop"
    /\ UNCHANGED prev_failures
    /\ UNCHANGED last_outcome
    /\ UNCHANGED wait_left
    /\ UNCHANGED tests
    /\ UNCHANGED probe_log
    /\ UNCHANGED probe_result
    /\ UNCHANGED stop_in_run
    /\ UNCHANGED late_sends
    /\ UNCHANGED <<variant, running, is_running, hWaitStop, stopper,
                   consecutive_failures, last_success, start_time, delay,
                   stop_calls, stopped_reports, startup_error, last_tick,
                   escalated, failrun, tick_start, rises, falls, interrupted>>
    /\ UNCHANGED scan_vars

\* run(), lines 159-161: an exception other than those send_keepalive counts
\* is raised in the try block (at the sleep call); it is logged and the
\* handler sleeps 5 s
UnexpectedError ==
    /\ variant = "strict"
    /\ pc = "sleep"
    /\ pc' = run_after_error
    /\ delay' = error_delay
    /\ UNCHANGED prev_failures
    /\ UNCHANGED last_outcome
    /\ UNCHANGED wait_left
    /\ UNCHANGED tests
    /\ UNCHANGED probe_log
    /\ UNCHANGED probe_result
    /\ UNCHANGED stop_in_run
    /\ UNCHANGED late_sends
    /\ UNCHANGED <<variant, running, is_running, hWaitStop, stopper,
                   consecutive_failures, last_success, start_time, now,
                   stop_calls, stopped_reports, startup_error, last_tick,
                   escalated, failrun, tick_start, rises, falls, interrupted>>
    /\ UNCHANGED scan_vars

\* run(), line 161: time.sleep(5) returns, back to the loop condition
ErrSleep ==
    /\ variant = "strict"
    /\ pc = "errsleep"
    /\ \E t \in Later : now' = t
    /\ pc' = "loop"
    /\ UNCHANGED prev_failures
    /\ UNCHANGED last_outcome
    /\ UNCHANGED wait_left
    /\ UNCHANGED tests
    /\ UNCHANGED probe_log
    /\ UNCHANGED probe_result
    /\ UNCHANGED stop_in_run
    /\ UNCHANGED late_sends
    /\ UNCHANGED <<variant, running, is_running, hWaitStop, stopper,
                   consecutive_failures, last_success, start_time, delay,
                   stop_calls, stopped_reports, startup_error, last_tick,
                   escalated, failrun, tick_start, rises, falls, interrupted>>
    /\ UNCHANGED scan_vars

\* run(), lines 156-158: KeyboardInterrupt inside the try block (during the
\* tick or the sleep) is logged and breaks the loop
KeyboardInterrupt ==
    /\ variant = "strict"
    /\ pc \in {"send", "sleep"}
    /\ interrupted' = TRUE
    /\ pc' = "final"
    /\ UNCHANGED prev_failures
    /\ UNCHANGED last_outcome
    /\ UNCHANGED wait_left
    /\ UNCHANGED tests
    /\ UNCHANGED probe_log
    /\ UNCHANGED probe_result
    /\ UNCHANGED stop_in_run
    /\ UNCHANGED late_sends
    /\ UNCHANGED <<variant, running, is_running, hWaitStop, stopper,
                   consecutive_failures, last_success, start_time, delay, now,
                   stop_calls, stopped_reports, startup_error, last_tick,
                   escalated, failrun, tick_start, rises, falls>>
    /\ UNCHANGED scan_vars

\* run(), lines 163-164: clear the flag and report
Finish ==
    /\ variant = "strict"
    /\ pc = "final"
    /\ running' = FALSE
    /\ falls' = falls + Fell(running, FALSE)
    /\ stopped_reports' = stopped_reports + 1
    /\ pc' = "done"
    /\ UNCHANGED prev_failures
    /\ UNCHANGED last_outcome
    /\ UNCHANGED wait_left
    /\ UNCHANGED tests
    /\ UNCHANGED probe_log
    /\ UNCHANGED probe_result
    /\ UNCHANGED stop_in_run
    /\ UNCHANGED late_sends
    /\ UNCHANGED <<variant, is_running, hWaitStop, stopper,
                   consecutive_failures, last_success, start_time, delay, now,
                   stop_calls, startup_error, last_tick, escalated, failrun,
                   tick_start, rises, interrupted>>
    /\ UNCHANGED scan_vars

\* stop(), lines 166-168, called from another thread at any time
Stop ==
    /\ variant = "strict"
    /\ stop_calls < MaxStops
    /\ stop_calls' = stop_calls + 1
    /\ stop_in_run' = (stop_in_run \/ pc # "idle")
    /\ running' = stop_value(running)
    /\ rises' = rises + Rose(running, running')
    /\ falls' = falls + Fell(running, running')
    /\ UNCHANGED prev_failures
    /\ UNCHANGED last_outcome
    /\ UNCHANGED wait_left
    /\ UNCHANGED tests
    /\ UNCHANGED probe_log
    /\ UNCHANGED probe_result
    /\ UNCHANGED late_sends
    /\ UNCHANGED <<variant, pc, is_running, hWaitStop, stopper,
                   consecutive_failures, last_success, start_time, delay, now,
                   stopped_reports, startup_error, last_tick, escalated,
                   failrun, tick_start, interrupted>>
    /\ UNCHANGED scan_vars

StrictLoop ==
    \/ RunBegin
    \/ TestConnection
    \/ LoopCheck
    \/ SendKeepalive
    \/ SleepTick
    \/ Sleep
    \/ ErrSleep
    \/ Finish

----------------------------------------------------------------------------
(* PrinterKeepAliveService: the service engine (src/winservice.py) *)

\* send_keepalive: the failure counter after a tick with outcome ok
svc_send_keepalive_failures(cf, ok) == IF ok THEN 0 ELSE cf + 1

\* mutant: the thresholds compared with < instead of <=
get_retry_delay_strict_less(cf) ==
    IF cf < 3 THEN interval
    ELSE IF cf < 6 THEN interval * 2
    ELSE interval * 4

\* get_retry_delay: the wait for a failure count
get_retry_delay(cf) ==
    IF cf <= 3 THEN interval
    ELSE IF cf <= 6 THEN interval * 2
    ELSE interval * 4

\* main, lines 148-149: a failed tick at or past the threshold logs an error
main_escalates(ok, cf) == ~ok /\ cf >= max_failures

\* mutant: the service loop breaks at the threshold, as the strict one does
main_after_tick_break(ok, cf) == IF main_escalates(ok, cf) THEN "final" ELSE "wait"

\* main, lines 143-157: where the loop goes after send_keepalive returned
main_after_tick(ok, cf) == "wait"

\* main, lines 159-161: where the loop goes when an exception is raised in
\* the try block: the handler sleeps
main_after_error == "errsleep"

\* mutant: the service returns on a failed initial test, as the strict engine
main_after_test_exit(ok) == IF ok THEN "loop" ELSE "done"

\* main, lines 131-134: where main() goes after the initial connection test
main_after_test(ok) == "loop"

\* main, line 134: the loop condition
main_loop_target(flag) == IF flag THEN "poll" ELSE "final"

\* main, lines 136-140 and 153-157: the loop leaves when the event is signalled
main_on_event(signalled, otherwise) == IF signalled THEN "final" ELSE otherwise

\* SvcDoRun / main, lines 126-128: the service thread enters main()
MainBegin ==
    /\ variant = "service"
    /\ pc = "idle"
    /\ pc' = "test"
    /\ UNCHANGED prev_failures
    /\ UNCHANGED last_outcome
    /\ UNCHANGED wait_left
    /\ UNCHANGED tests
    /\ UNCHANGED probe_log
    /\ UNCHANGED probe_result
    /\ UNCHANGED stop_in_run
    /\ UNCHANGED late_sends
    /\ UNCHANGED <<variant, running, is_running, hWaitStop, stopper,
                   consecutive_failures, last_success, start_time, delay, now,
                   stop_calls, stopped_reports, startup_error, last_tick,
                   escalated, failrun, tick_start, rises, falls, interrupted>>
    /\ UNCHANGED scan_vars

\* main, lines 131-132 with test_connection (113-122): a failure is logged
\* and the loop is entered all the same
SvcTestConnection ==
    /\ variant = "service"
    /\ pc = "test"
    /\ \E ok \in BOOLEAN :
          /\ startup_error' = ~ok
          /\ pc' = main_after_test(ok)
    /\ tests' = tests + 1
    /\ UNCHANGED prev_failures
    /\ UNCHANGED last_outcome
    /\ UNCHANGED wait_left
    /\ UNCHANGED probe_log
    /\ UNCHANGED probe_result
    /\ UNCHANGED stop_in_run
    /\ UNCHANGED late_sends
    /\ UNCHANGED <<variant, running, is_running, hWaitStop, stopper,
                   consecutive_failures, last_success, start_time, delay, now,
                   stop_calls, stopped_reports, last_tick, escalated, failrun,
                   tick_start, rises, falls, interrupted>>
    /\ UNCHANGED scan_vars

\* main, line 134: while self.is_running
SvcLoopCheck ==
    /\ variant = "service"
    /\ pc = "loop"
    /\ pc' = main_loop_target(is_running)
    /\ UNCHANGED prev_failures
    /\ UNCHANGED last_outcome
    /\ UNCHANGED wait_left
    /\ UNCHANGED tests
    /\ UNCHANGED probe_log
    /\ UNCHANGED probe_result
    /\ UNCHANGED stop_in_run
    /\ UNCHANGED late_sends
    /\ UNCHANGED <<variant, running, is_running, hWaitStop, stopper,
                   consecutive_failures, last_success, start_time, delay, now,
                   stop_calls, stopped_reports, startup_error, last_tick,
                   escalated, failrun, tick_start, rises, falls, interrupted>>
    /\ UNCHANGED scan_vars

\* main, lines 136-140: WaitForSingleObject(hWaitStop, 0); the event is
\* auto-reset, so a successful wait clears it
SvcPoll ==
    /\ variant = "service"
    /\ pc = "poll"
    /\ pc' = main_on_event(hWaitStop, "send")
    /\ hWaitStop' = FALSE
    /\ UNCHANGED prev_failures
    /\ UNCHANGED last_outcome
    /\ UNCHANGED wait_left
    /\ UNCHANGED tests
    /\ UNCHANGED probe_log
    /\ UNCHANGED probe_result
    /\ UNCHANGED stop_in_run
    /\ UNCHANGED late_sends
    /\ UNCHANGED <<variant, running, is_running, stopper,
                   consecutive_failures, last_success, start_time, delay, now,
                   stop_calls, stopped_reports, startup_error, last_tick,
                   escalated, failrun, tick_start, rises, falls, interrupted>>
    /\ UNCHANGED scan_vars

\* main, lines 143-152 with send_keepalive (99-111): one tick, then the delay
\* is computed from the counter as the tick left it
SvcSendKeepalive ==
    /\ variant = "service"
    /\ pc = "send"
    /\ \E ok \in BOOLEAN :
          /\ ok \/ consecutive_failures < MaxFailures
          /\ consecutive_failures' =
                 svc_send_keepalive_failures(consecutive_failures, ok)
          /\ prev_failures' = consecutive_failures
          /\ last_tick' = IF ok THEN "ok" ELSE "fail"
          /\ failrun' = IF ok THEN 0 ELSE failrun + 1
          /\ escalated' = main_escalates(ok, consecutive_failures')
          /\ pc' = main_after_tick(ok, consecutive_failures')
    /\ late_sends' = IF stop_in_run THEN Min(late_sends + 1, 2) ELSE late_sends
    /\ delay' = IF pc' = "wait" THEN get_retry_delay(consecutive_failures')
                ELSE delay
    /\ wait_left' = IF pc' = "wait" THEN WaitUnits ELSE wait_left
    /\ UNCHANGED last_outcome
    /\ UNCHANGED tests
    /\ UNCHANGED probe_log
    /\ UNCHANGED probe_result
    /\ UNCHANGED stop_in_run
    /\ UNCHANGED <<variant, running, is_running, hWaitStop, stopper,
                   last_success, start_time, now, stop_calls, stopped_reports,
                   startup_error, tick_start, rises, falls, interrupted>>
    /\ UNCHANGED scan_vars

\* main, lines 153-157: the timed wait ends because the event is signalled
SvcWaitSignalled ==
    /\ variant = "service"
    /\ pc = "wait"
    /\ hWaitStop
    /\ hWaitStop' = FALSE
    /\ pc' = main_on_event(TRUE, "loop")
    /\ UNCHANGED prev_failures
    /\ UNCHANGED last_outcome
    /\ UNCHANGED wait_left
    /\ UNCHANGED tests
    /\ UNCHANGED probe_log
    /\ UNCHANGED probe_result
    /\ UNCHANGED stop_in_run
    /\ UNCHANGED late_sends
    /\ UNCHANGED <<variant, running, is_running, stopper,
                   consecutive_failures, last_success, start_time, delay, now,
                   stop_calls, stopped_reports, startup_error, last_tick,
                   escalated, failrun, tick_start, rises, falls, interrupted>>
    /\ UNCHANGED scan_vars

\* main, lines 153-157: time passes inside WaitForSingleObject(hWaitStop,
\* delay) while the event is not signalled
SvcWaitTick ==
    /\ variant = "service"
    /\ pc = "wait"
    /\ ~hWaitStop
    /\ wait_left > 0
    /\ wait_left' = wait_left - 1
    /\ UNCHANGED tests
    /\ UNCHANGED probe_log
    /\ UNCHANGED probe_result
    /\ UNCHANGED stop_in_run
    /\ UNCHANGED late_sends
    /\ UNCHANGED <<variant, pc, running, is_running, hWaitStop, stopper,
                   consecutive_failures, last_success, start_time, delay, now,
                   stop_calls, stopped_reports, startup_error, last_tick,
                   escalated, failrun, tick_start, prev_failures, rises, falls,
                   interrupted, last_outcome>>
    /\ UNCHANGED scan_vars

\* main, lines 153-157: the timed wait ends because the delay has elapsed
SvcWaitTimeout ==
    /\ variant = "service"
    /\ pc = "wait"
    /\ ~hWaitStop
    /\ wait_left = 0
    /\ pc' = main_on_event(FALSE, "loop")
    /\ UNCHANGED prev_failures
    /\ UNCHANGED last_outcome
    /\ UNCHANGED wait_left
    /\ UNCHANGED tests
    /\ UNCHANGED probe_log
    /\ UNCHANGED probe_result
    /\ UNCHANGED stop_in_run
    /\ UNCHANGED late_sends
    /\ UNCHANGED <<variant, running, is_running, hWaitStop, stopper,
                   consecutive_failures, last_success, start_time, delay, now,
                   stop_calls, stopped_reports, startup_error, last_tick,
                   escalated, failrun, tick_start, rises, falls, interrupted>>
    /\ UNCHANGED scan_vars

\* main, lines 159-161: an exception other than those send_keepalive counts
\* is raised in the try block (at the wait call); it is logged and the
\* handler sleeps 5 s
SvcUnexpectedError ==
    /\ variant = "service"
    /\ pc = "wait"
    /\ pc' = main_after_error
    /\ delay' = error_delay
    /\ UNCHANGED prev_failures
    /\ UNCHANGED last_outcome
    /\ UNCHANGED wait_left
    /\ UNCHANGED tests
    /\ UNCHANGED probe_log
    /\ UNCHANGED probe_result
    /\ UNCHANGED stop_in_run
    /\ UNCHANGED late_sends
    /\ UNCHANGED <<variant, running, is_running, hWaitStop, stopper,
                   consecutive_failures, last_success, start_time, now,
                   stop_calls, stopped_reports, startup_error, last_tick,
                   escalated, failrun, tick_start, rises, falls, interrupted>>
    /\ UNCHANGED scan_vars

\* main, line 161: time.sleep(5) returns, back to the loop condition
SvcErrSleep ==
    /\ variant = "service"
    /\ pc = "errsleep"
    /\ pc' = "loop"
    /\ UNCHANGED prev_failures
    /\ UNCHANGED last_outcome
    /\ UNCHANGED wait_left
    /\ UNCHANGED tests
    /\ UNCHANGED probe_log
    /\ UNCHANGED probe_result
    /\ UNCHANGED stop_in_run
    /\ UNCHANGED late_sends
    /\ UNCHANGED <<variant, running, is_running, hWaitStop, stopper,
                   consecutive_failures, last_success, start_time, delay, now,
                   stop_calls, stopped_reports, startup_error, last_tick,
                   escalated, failrun, tick_start, rises, falls, interrupted>>
    /\ UNCHANGED scan_vars

\* main, line 163: the loop is left, the stop is reported
SvcFinish ==
    /\ variant = "service"
    /\ pc = "final"
    /\ stopped_reports' = stopped_reports + 1
    /\ pc' = "done"
    /\ UNCHANGED prev_failures
    /\ UNCHANGED last_outcome
    /\ UNCHANGED wait_left
    /\ UNCHANGED tests
    /\ UNCHANGED probe_log
    /\ UNCHANGED probe_result
    /\ UNCHANGED stop_in_run
    /\ UNCHANGED late_sends
    /\ UNCHANGED <<variant, running, is_running, hWaitStop, stopper,
                   consecutive_failures, last_success, start_time, delay, now,
                   stop_calls, startup_error, last_tick, escalated, failrun,
                   tick_start, rises, falls, interrupted>>
    /\ UNCHANGED scan_vars

\* SvcStop, lines 84-85, called by the service control manager's thread:
\* report STOP_PENDING and clear the flag
SvcStopFlag ==
    /\ variant = "service"
    /\ stopper = "idle"
    /\ stop_calls < MaxStops
    /\ stop_calls' = stop_calls + 1
    /\ stop_in_run' = TRUE
    /\ is_running' = FALSE
    /\ falls' = falls + Fell(is_running, FALSE)
    /\ stopper' = "signal"
    /\ UNCHANGED prev_failures
    /\ UNCHANGED last_outcome
    /\ UNCHANGED wait_left
    /\ UNCHANGED tests
    /\ UNCHANGED probe_log
    /\ UNCHANGED probe_result
    /\ UNCHANGED late_sends
    /\ UNCHANGED <<variant, pc, running, hWaitStop, consecutive_failures,
                   last_success, start_time, delay, now, stopped_reports,
                   startup_error, last_tick, escalated, failrun, tick_start,
                   rises, interrupted>>
    /\ UNCHANGED scan_vars

\* SvcStop, lines 86-87: SetEvent(hWaitStop), log
SvcStopSignal ==
    /\ variant = "service"
    /\ stopper = "signal"
    /\ hWaitStop' = TRUE
    /\ stopper' = "idle"
    /\ UNCHANGED prev_failures
    /\ UNCHANGED last_outcome
    /\ UNCHANGED wait_left
    /\ UNCHANGED tests
    /\ UNCHANGED probe_log
    /\ UNCHANGED probe_result
    /\ UNCHANGED stop_in_run
    /\ UNCHANGED late_sends
    /\ UNCHANGED <<variant, pc, running, is_running, consecutive_failures,
                   last_success, start_time, delay, now, stop_calls,
                   stopped_reports, startup_error, last_tick, escalated,
                   failrun, tick_start, rises, falls, interrupted>>
    /\ UNCHANGED scan_vars

ServiceLoop ==
    \/ MainBegin
    \/ SvcTestConnection
    \/ SvcLoopCheck
    \/ SvcPoll
    \/ SvcSendKeepalive
    \/ SvcWaitSignalled
    \/ SvcWaitTick
    \/ SvcWaitTimeout
    \/ SvcErrSleep
    \/ SvcFinish

----------------------------------------------------------------------------
(* discover_printer_ports (src/keepalive.py and src/winservice.py) *)

\* what a connect to port p ends with: nothing is sent, the port either
\* accepts, refuses (or is unreachable), or the connect times out
ConnectOutcomes(p) ==
    IF p \in accepting THEN {"connected"} ELSE {"refused", "timeout"}

\* keepalive.py line 21: the exceptions the scan catches
scan_cli_caught(outcome) == outcome \in {"refused", "timeout"}

\* mutant: an open port is put at the front of the list
scan_cli_result_prepend(open, p, outcome) ==
    IF outcome = "connected" THEN <<p>> \o open ELSE open

\* keepalive.py lines 17-22: the list after trying port p
scan_cli_result(open, p, outcome) ==
    IF outcome = "connected" THEN Append(open, p) ELSE open

\* winservice.py lines 20-28: connect_ex returns 0 or an error code; the
\* bare except swallows anything raised
scan_svc_caught(outcome) == TRUE

\* winservice.py lines 23-25: the list after trying port p
scan_svc_result(open, p, outcome) ==
    IF outcome = "connected" THEN Append(open, p) ELSE open

\* keepalive.py lines 16-22: one iteration of the for loop
ScanPortCli ==
    /\ variant = "scan_cli"
    /\ pc = "idle"
    /\ scan_i <= Len(common_printer_ports)
    /\ LET p == common_printer_ports[scan_i] IN
       \E outcome \in ConnectOutcomes(p) :
          /\ tried' = Append(tried, p)
          /\ IF outcome = "connected" \/ scan_cli_caught(outcome)
             THEN /\ open_ports' = scan_cli_result(open_ports, p, outcome)
                  /\ scan_i' = scan_i + 1
                  /\ UNCHANGED <<raised, pc>>
             ELSE /\ raised' = TRUE
                  /\ pc' = "done"
                  /\ UNCHANGED <<open_ports, scan_i>>
    /\ UNCHANGED prev_failures
    /\ UNCHANGED last_outcome
    /\ UNCHANGED wait_left
    /\ UNCHANGED tests
    /\ UNCHANGED probe_log
    /\ UNCHANGED probe_result
    /\ UNCHANGED stop_in_run
    /\ UNCHANGED late_sends
    /\ UNCHANGED <<variant, accepting>>
    /\ UNCHANGED <<running, is_running, hWaitStop, stopper,
                   consecutive_failures, last_success, start_time, delay, now,
                   stop_calls, stopped_reports, startup_error, last_tick,
                   escalated, failrun, tick_start, rises, falls, interrupted>>

\* winservice.py lines 19-28: one iteration of the for loop
ScanPortSvc ==
    /\ variant = "scan_svc"
    /\ pc = "idle"
    /\ scan_i <= Len(common_printer_ports)
    /\ LET p == common_printer_ports[scan_i] IN
       \E outcome \in ConnectOutcomes(p) :
          /\ tried' = Append(tried, p)
          /\ IF outcome = "connected" \/ scan_svc_caught(outcome)
             THEN /\ open_ports' = scan_svc_result(open_ports, p, outcome)
                  /\ scan_i' = scan_i + 1
                  /\ UNCHANGED <<raised, pc>>
             ELSE /\ raised' = TRUE
                  /\ pc' = "done"
                  /\ UNCHANGED <<open_ports, scan_i>>
    /\ UNCHANGED prev_failures
    /\ UNCHANGED last_outcome
    /\ UNCHANGED wait_left
    /\ UNCHANGED tests
    /\ UNCHANGED probe_log
    /\ UNCHANGED probe_result
    /\ UNCHANGED stop_in_run
    /\ UNCHANGED late_sends
    /\ UNCHANGED <<variant, accepting>>
    /\ UNCHANGED <<running, is_running, hWaitStop, stopper,
                   consecutive_failures, last_success, start_time, delay, now,
                   stop_calls, stopped_reports, startup_error, last_tick,
                   escalated, failrun, tick_start, rises, falls, interrupted>>

\* keepalive.py line 24 / winservice.py line 30: return open_ports
ScanReturn ==
    /\ variant \in {"scan_cli", "scan_svc"}
    /\ pc = "idle"
    /\ scan_i = Len(common_printer_ports) + 1
    /\ pc' = "done"
    /\ UNCHANGED prev_failures
    /\ UNCHANGED last_outcome
    /\ UNCHANGED wait_left
    /\ UNCHANGED tests
    /\ UNCHANGED probe_log
    /\ UNCHANGED probe_result
    /\ UNCHANGED stop_in_run
    /\ UNCHANGED late_sends
    /\ UNCHANGED <<variant, running, is_running, hWaitStop, stopper,
                   consecutive_failures, last_success, start_time, delay, now,
                   stop_calls, stopped_reports, startup_error, last_tick,
                   escalated, failrun, tick_start, rises, falls, interrupted>>
    /\ UNCHANGED scan_vars

----------------------------------------------------------------------------
(* test_printer_communication (src/keepalive.py) *)

\* lines 29-33: the byte sequences tried, in order: the SBPL keep-alive
\* ESC @ ESC A ESC Z, ESC @ (initialize), CR LF
test_commands == << <<27, 64, 27, 65, 27, 90>>, <<27, 64>>, <<13, 10>> >>

\* mutant: only an attempt that got a response counts
probe_succeeds_needs_reply(outcome) == outcome = "response"

\* lines 38-49: the attempt returns True when recv returns (46) or times out
\* (47-49); a failed connect, sendall or recv raises
probe_succeeds(outcome) == outcome \in {"read_timeout", "response"}

\* line 50: except Exception catches whatever an attempt raises
probe_caught(outcome) == TRUE

\* lines 36-51: one iteration of the for loop, on a connection of its own
ProbeAttempt ==
    /\ variant = "probe"
    /\ pc = "idle"
    /\ Len(probe_log) < Len(test_commands)
    /\ LET cmd == test_commands[Len(probe_log) + 1] IN
       \E outcome \in TickOutcomes :
          /\ probe_log' = Append(probe_log, <<cmd, outcome>>)
          /\ IF probe_succeeds(outcome)
             THEN /\ probe_result' = "true"
                  /\ pc' = "done"
                  /\ UNCHANGED raised
             ELSE IF probe_caught(outcome)
             THEN UNCHANGED <<probe_result, pc, raised>>
             ELSE /\ raised' = TRUE
                  /\ pc' = "done"
                  /\ UNCHANGED probe_result
    /\ UNCHANGED stop_in_run
    /\ UNCHANGED late_sends
    /\ UNCHANGED <<variant, running, is_running, hWaitStop, stopper,
                   consecutive_failures, last_success, start_time, delay, now,
                   stop_calls, stopped_reports, startup_error, last_tick,
                   escalated, failrun, tick_start, prev_failures, rises, falls,
                   interrupted, last_outcome, wait_left, tests>>
    /\ UNCHANGED <<accepting, scan_i, open_ports, tried>>

\* line 53: all the attempts failed, return False
ProbeReturnFalse ==
    /\ variant = "probe"
    /\ pc = "idle"
    /\ Len(probe_log) = Len(test_commands)
    /\ probe_result' = "false"
    /\ pc' = "done"
    /\ UNCHANGED probe_log
    /\ UNCHANGED stop_in_run
    /\ UNCHANGED late_sends
    /\ UNCHANGED <<variant, running, is_running, hWaitStop, stopper,
                   consecutive_failures, last_success, start_time, delay, now,
                   stop_calls, stopped_reports, startup_error, last_tick,
                   escalated, failrun, tick_start, prev_failures, rises, falls,
                   interrupted, last_outcome, wait_left, tests>>
    /\ UNCHANGED scan_vars

----------------------------------------------------------------------------
(* The specifications *)

Next ==
    \/ RunBegin
    \/ TestConnection
    \/ LoopCheck
    \/ SendKeepalive
    \/ SleepTick
    \/ Sleep
    \/ UnexpectedError
    \/ ErrSleep
    \/ KeyboardInterrupt
    \/ Finish
    \/ Stop
    \/ MainBegin
    \/ SvcTestConnection
    \/ SvcLoopCheck
    \/ SvcPoll
    \/ SvcSendKeepalive
    \/ SvcWaitSignalled
    \/ SvcWaitTick
    \/ SvcWaitTimeout
    \/ SvcUnexpectedError
    \/ SvcErrSleep
    \/ SvcFinish
    \/ SvcStopFlag
    \/ SvcStopSignal
    \/ ScanPortCli
    \/ ScanPortSvc
    \/ ScanReturn
    \/ ProbeAttempt
    \/ ProbeReturnFalse

Spec == Init /\ [][Next]_vars

\* every blocking call of the loop thread returns: the loop thread, left alone
\* by nothing but a finished run, takes its next step
FairSpec == Spec /\ WF_vars(StrictLoop) /\ WF_vars(ServiceLoop)
             /\ WF_vars(SvcStopSignal)

----------------------------------------------------------------------------
(* Properties *)

Engine == variant \in {"strict", "service"}

\* the loop thread is inside the tick loop
InLoop == pc \in {"loop", "poll", "send", "sleep", "wait", "errsleep"}

\* C1: in both engines consecutive_failures equals the number of failed ticks
\* since the last successful tick (or since start), is 0 right after a
\* successful tick, and never decreases except by being reset to 0.
C1_FailureCount ==
    /\ [](Engine =>
            /\ consecutive_failures = failrun
            /\ (last_tick = "ok" => consecutive_failures = 0)
            /\ (last_tick = "fail" =>
                    consecutive_failures = prev_failures + 1))
    /\ [][Engine /\ consecutive_failures' < consecutive_failures
              => consecutive_failures' = 0]_vars

\* C1 witness: a successful tick of the service engine that followed two
\* failed ticks left the counter at 0
C1_Witness ==
    /\ variant = "service"
    /\ last_tick = "ok"
    /\ prev_failures = 2
    /\ consecutive_failures = 0

\* C2: in the service engine the wait after a tick is interval x 1 for a
\* count <= 3, x 2 for 4..6, x 4 above 6, from the count as the tick left it;
\* the wait after a successful tick is the base interval.
C2_BackoffDelay ==
    (variant = "service" /\ pc = "wait") =>
        /\ \/ consecutive_failures <= 3 /\ delay = interval
           \/ consecutive_failures >= 4 /\ consecutive_failures <= 6
                /\ delay = 2 * interval
           \/ consecutive_failures > 6 /\ delay = 4 * interval
        /\ (last_tick = "ok" => delay = interval)

\* C2 witness: a successful tick after more than six failures waits the base
\* interval
C2_Witness ==
    /\ variant = "service"
    /\ pc = "wait"
    /\ last_tick = "ok"
    /\ prev_failures > 6
    /\ delay = interval

C4_StatusTracksPhase ==
    variant = "strict" =>
        /\ (pc \in {"idle", "test", "done"} => get_status.running = FALSE)
        /\ (pc \in {"loop", "send", "sleep", "errsleep"}
                => get_status.running = TRUE)

\* C5: when the initial connection test of the strict engine fails, the
\* tick loop is never entered and get_status().running is false once run()
\* has returned.
C5_StartupFailureNotRunning ==
    (variant = "strict" /\ startup_error) =>
        /\ pc = "done"
        /\ last_tick = "none"
        /\ get_status.running = FALSE

\* C6: over one run the running flag goes false -> true exactly once and
\* true -> false exactly once: neither happens twice, and when the run has
\* ended both have happened and the flag is false.
C6_FlagOnceUpOnceDown ==
    Engine =>
        /\ rises <= 1
        /\ falls <= 1
        /\ (pc = "done" =>
                /\ rises = 1
                /\ falls = 1
                /\ ~(IF variant = "strict" THEN running ELSE is_running))

\* C7: a stop requested at any point of a run is eventually observed: the
\* loop exits and reports that it has stopped.
C7_StopNeverLost ==
    [](Engine /\ stop_calls > 0 => <>(pc = "done" /\ stopped_reports = 1))

\* C8: in the service engine reaching max_failures never ends the loop: the
\* loop is left only after a stop request, and after a failed tick at or past
\* the threshold another tick follows unless a stop is requested.
C8_ServiceNeverGivesUp ==
    /\ [](variant = "service" /\ pc \in {"final", "done"} => stop_calls > 0)
    /\ (variant = "service" /\ pc = "wait" /\ last_tick = "fail"
            /\ consecutive_failures >= max_failures)
         ~> (pc = "send" \/ stop_calls > 0)

\* C8 witness: the service engine performs a further tick with the counter
\* past the threshold and no stop requested
C8_Witness ==
    /\ variant = "service"
    /\ pc = "send"
    /\ consecutive_failures > max_failures
    /\ stop_calls = 0

\* C9 as stated: in an engine with threshold m the counter keeps counting
\* past m (the run goes on after a failed tick unless stopped), every failed
\* tick from the m-th on logs an escalation, and a following successful tick
\* resets the counter and sets last_success (in the engine that has one) no
\* earlier than the tick.
C9_CountsPastThreshold ==
    Engine =>
        /\ (last_tick = "fail" =>
                /\ get_status.consecutive_failures = failrun
                /\ (escalated <=> failrun >= max_failures)
                /\ (stop_calls = 0 /\ ~interrupted => InLoop))
        /\ (last_tick = "ok" =>
                /\ get_status.consecutive_failures = 0
                /\ (variant = "strict" =>
                        /\ last_success # <<>>
                        /\ last_success[1] >= tick_start))

\* C9 amended: the service engine keeps counting past the threshold, logs an
\* escalation on the m-th and every later failed tick of the run of failures
\* and resets the counter on success (it keeps no last_success); the strict
\* engine logs the escalation on the m-th failed tick and leaves the loop, so
\* its counter never exceeds m, and a successful tick of the strict engine
\* resets the counter and sets last_success no earlier than the tick.
C9_Escalation ==
    /\ variant = "service" =>
        /\ (last_tick = "fail" =>
                /\ consecutive_failures = failrun
                /\ (escalated <=> failrun >= max_failures))
        /\ (last_tick = "ok" => consecutive_failures = 0 /\ ~escalated)
        /\ last_success = <<>>
    /\ variant = "strict" =>
        /\ get_status.consecutive_failures <= max_failures
        /\ (last_tick = "fail" =>
                /\ get_status.consecutive_failures = failrun
                /\ (escalated <=> failrun = max_failures)
                /\ (escalated => pc \in {"final", "done"}))
        /\ (last_tick = "ok" =>
                /\ get_status.consecutive_failures = 0
                /\ ~escalated
                /\ last_success # <<>>
                /\ last_success[1] >= tick_start)

\* C9 witness: the service engine has counted past the threshold with the
\* escalation logged again (the strict engine's successful tick after
\* failures is C9_WitnessStrict)
C9_Witness ==
    /\ variant = "service"
    /\ last_tick = "fail"
    /\ consecutive_failures = max_failures + 2
    /\ escalated

C9_WitnessStrict ==
    /\ variant = "strict"
    /\ last_tick = "ok"
    /\ prev_failures = max_failures - 1
    /\ last_success = <<now>>
    /\ now > tick_start

\* the ports of S in candidate-list order
InCandidateOrder(S) ==
    LET Accepts(p) == p \in S IN SelectSeq(common_printer_ports, Accepts)

NoDuplicates(q) == \A i, j \in 1..Len(q) : q[i] = q[j] => i = j

\* C10: discover_printer_ports returns exactly the accepting candidates in
\* candidate-list order without duplicates; each candidate is tried exactly
\* once, a failed or timed-out connect leaves the port out and the scan goes
\* on, and nothing is raised to the caller.
C10_DiscoverPorts ==
    variant \in {"scan_cli", "scan_svc"} =>
        /\ ~raised
        /\ tried = SubSeq(common_printer_ports, 1, scan_i - 1)
        /\ NoDuplicates(open_ports)
        /\ (pc = "done" =>
                /\ tried = common_printer_ports
                /\ open_ports = InCandidateOrder(accepting))

\* C10 witness: the target accepting only 631 and 9100 gives [9100, 631]
C10_Witness ==
    /\ variant = "scan_cli"
    /\ pc = "done"
    /\ accepting = {631, 9100}
    /\ open_ports = <<9100, 631>>
    /\ Len(tried) = 10


\* C11: in the strict engine a tick whose connect and send succeed and whose
\* read times out is a success exactly as one that got a response: the
\* counter is reset, last_success is set; only a tick that ends in an error
\* adds to the counter.
C11_ReadTimeoutIsSuccess ==
    variant = "strict" =>
        /\ (last_outcome \in {"read_timeout", "response"} =>
                /\ last_tick = "ok"
                /\ consecutive_failures = 0
                /\ last_success # <<>>
                /\ last_success[1] >= tick_start)
        /\ (last_outcome \in {"connect_error", "send_error", "read_error"} =>
                /\ last_tick = "fail"
                /\ consecutive_failures = prev_failures + 1)
        /\ (last_outcome = "none" => consecutive_failures = 0)

\* C11 witness: a tick that timed out on the read, after two failures, left
\* the counter at 0 and last_success at the time it returned
C11_Witness ==
    /\ variant = "strict"
    /\ last_outcome = "read_timeout"
    /\ prev_failures = 2
    /\ consecutive_failures = 0
    /\ last_success = <<now>>

\* a stop request has arrived while the loop is in its wait between ticks:
\* stop() has cleared the flag, or SvcStop has set the event
StopArrivedInWait ==
    \/ variant = "strict" /\ pc = "sleep" /\ ~running
    \/ variant = "service" /\ pc = "wait" /\ hWaitStop

\* C12: in both engines a stop that arrives during the wait between ticks
\* ends the wait: none of the remaining delay elapses, and the loop goes on
\* to exit without another tick.
C12_WaitInterruptible ==
    [][StopArrivedInWait =>
          /\ wait_left' = wait_left
          /\ pc' # "send"]_vars

\* C13: the engine state has one writer: running, consecutive_failures,
\* last_success and start_time are written by the loop thread only; a call of
\* stop() / SvcStop from another thread (and get_status, which is a pure
\* read) writes none of them.
C13_SingleWriter ==
    [][stop_calls' # stop_calls =>
          /\ running' = running
          /\ is_running' = is_running
          /\ consecutive_failures' = consecutive_failures
          /\ last_success' = last_success
          /\ start_time' = start_time]_vars

\* a step in which an unexpected error is handled leaves the counter and
\* last_success alone and starts the fixed pause; the pause ends at the loop
\* condition
ErrorStepHandled ==
    /\ (pc # "errsleep" /\ pc' = "errsleep" =>
            /\ consecutive_failures' = consecutive_failures
            /\ last_success' = last_success
            /\ delay' = error_delay)
    /\ (pc = "errsleep" /\ pc' # "errsleep" => pc' = "loop")

\* the loop was left by an explicit stop, an interrupt, or the strict engine's
\* failed startup test
LeftByStopOrStartup ==
    \/ stop_calls > 0
    \/ interrupted
    \/ variant = "strict" /\ startup_error

\* C14 as stated: in both engines an unexpected error in a loop iteration is
\* logged, followed by a fixed short pause and the next iteration, with the
\* counter unchanged; the loop exits only on a stop, an interrupt or the
\* strict engine's startup failure.
C14_OnlyStopEndsLoop ==
    /\ [][Engine => ErrorStepHandled]_vars
    /\ [](Engine /\ pc \in {"final", "done"} => LeftByStopOrStartup)

\* C14 amended: as stated, except that the strict engine's loop also exits on
\* the failed tick that brings the counter to max_failures.
C14_ErrorNeverEndsLoop ==
    /\ [][Engine => ErrorStepHandled]_vars
    /\ [](Engine /\ pc \in {"final", "done"} =>
             \/ LeftByStopOrStartup
             \/ variant = "strict" /\ escalated
                  /\ consecutive_failures = max_failures)

\* C14 witness: the strict engine pauses after an unexpected error that
\* followed two failed ticks, the counter still 2
C14_Witness ==
    /\ variant = "strict"
    /\ pc = "errsleep"
    /\ delay = error_delay
    /\ last_tick = "fail"
    /\ consecutive_failures = 2
    /\ stop_calls = 0

\* C15: in the strict engine the failed tick that brings the counter to
\* max_failures logs the escalation and ends the loop at once (no wait, no
\* further send); the engine then clears running and reports the stop.
C15_StrictStopsAtThreshold ==
    /\ [](variant = "strict" /\ consecutive_failures >= max_failures =>
             /\ consecutive_failures = max_failures
             /\ failrun = max_failures
             /\ last_tick = "fail"
             /\ escalated
             /\ pc \in {"final", "done"}
             /\ (pc = "done" => ~running /\ stopped_reports = 1))
    /\ [][variant = "strict" /\ consecutive_failures = max_failures =>
             /\ consecutive_failures' = consecutive_failures
             /\ wait_left' = wait_left
             /\ now' = now
             /\ (pc' # pc =>
                    /\ pc = "final"
                    /\ pc' = "done"
                    /\ ~running'
                    /\ stopped_reports' = stopped_reports + 1)]_vars

\* C15 witness: a run that nobody stopped has ended at the threshold, the
\* flag cleared and the stop reported
C15_Witness ==
    /\ variant = "strict"
    /\ pc = "done"
    /\ escalated
    /\ consecutive_failures = max_failures
    /\ stop_calls = 0
    /\ ~interrupted
    /\ ~running
    /\ stopped_reports = 1

\* C16: Starting makes exactly one connectivity test before the first tick.
\* In the strict engine a failed test ends the run with the startup error
\* logged, no keep-alive sent and the counter still 0; in the service engine
\* a failed test is logged and the loop is entered all the same.
C16_StartupTest ==
    Engine =>
        /\ (pc \in {"idle", "test"} => tests = 0 /\ last_tick = "none")
        /\ (pc \notin {"idle", "test"} => tests = 1)
        /\ (variant = "strict" /\ startup_error =>
                /\ pc = "done"
                /\ last_tick = "none"
                /\ consecutive_failures = 0
                /\ last_success = <<>>)
        /\ (variant = "strict" /\ pc \notin {"idle", "test"} /\ ~startup_error
                /\ stop_calls = 0 /\ ~interrupted /\ ~escalated => InLoop)
        /\ (variant = "service" /\ startup_error /\ stop_calls = 0 => InLoop)

\* C16 witness: the service engine has performed a tick after its initial
\* test failed
C16_Witness ==
    /\ variant = "service"
    /\ startup_error
    /\ tests = 1
    /\ last_tick = "ok"
    /\ stop_calls = 0

\* C17: in the strict engine last_success is None until the first successful
\* tick, is assigned only by a successful tick (to the time it returns), and
\* with a clock that does not go back it never decreases.
C17_LastSuccess ==
    /\ (variant = "strict" => last_success = <<>>)
    /\ [](variant = "strict" =>
             /\ (last_tick = "none" => last_success = <<>>)
             /\ (last_tick = "ok" => last_success # <<>>)
             /\ (last_success # <<>> => last_success[1] <= now))
    /\ [][variant = "strict" /\ last_success' # last_success =>
             /\ pc = "send"
             /\ last_tick' = "ok"
             /\ last_success' = <<now'>>
             /\ (last_success # <<>> => last_success'[1] >= last_success[1])]_vars

\* C17 witness: a failed tick and a stop() later, last_success still holds
\* the time of the earlier successful tick
C17_Witness ==
    /\ variant = "strict"
    /\ last_success = <<1>>
    /\ now = 3
    /\ last_tick = "fail"
    /\ stop_calls = 1

AttemptFailed(i) ==
    probe_log[i][2] \in {"connect_error", "send_error", "read_error"}

\* C18: test_printer_communication tries the keep-alive command, the
\* initialize sequence and the line terminator in that order, returns true at
\* the first attempt that raises no error (a response or a read timeout)
\* without trying further, returns false exactly when all three attempts
\* failed, and never raises.
C18_ProtocolProbe ==
    variant = "probe" =>
        /\ ~raised
        /\ Len(probe_log) <= 3
        /\ \A i \in 1..Len(probe_log) :
              /\ probe_log[i][1] = test_commands[i]
              /\ (i < Len(probe_log) => AttemptFailed(i))
        /\ test_commands[1] = <<27, 64, 27, 65, 27, 90>>
        /\ test_commands[2] = <<27, 64>>
        /\ test_commands[3] = <<13, 10>>
        /\ (pc # "done" =>
                /\ probe_result = "none"
                /\ \A i \in 1..Len(probe_log) : AttemptFailed(i))
        /\ (pc = "done" =>
                /\ probe_result \in {"true", "false"}
                /\ (probe_result = "true" <=>
                        /\ Len(probe_log) >= 1
                        /\ ~AttemptFailed(Len(probe_log)))
                /\ (probe_result = "false" <=>
                        /\ Len(probe_log) = 3
                        /\ \A i \in 1..3 : AttemptFailed(i)))

\* C18 witness: the first attempt failed to connect, the second sent ESC @ and
\* timed out on the read: true, with no third attempt
C18_Witness ==
    /\ variant = "probe"
    /\ pc = "done"
    /\ probe_result = "true"
    /\ probe_log = << <<test_commands[1], "connect_error">>,
                      <<test_commands[2], "read_timeout">> >>

\* C19: in both engines, whatever the interleaving of a stop request with
\* the running loop (for the strict engine: a stop() made once run() has set
\* its flag), at most one send_keepalive is made after the request, the one
\* the loop was committed to; a second tick never starts.
C19_AtMostOneLateSend ==
    Engine =>
        /\ late_sends <= 1
        /\ (stop_in_run /\ pc \in {"sleep", "wait"} /\ late_sends = 1
                => last_tick # "none")
        /\ (late_sends = 1 => stop_in_run)

\* C19 witness: the strict engine was stopped between the loop condition and
\* the send, made that one send, and has ended
C19_Witness ==
    /\ variant = "strict"
    /\ stop_in_run
    /\ late_sends = 1
    /\ pc = "done"
    /\ ~interrupted
    /\ ~escalated

\* a step of the strict engine in which send_keepalive ran to its return
StrictTickStep ==
    /\ variant = "strict"
    /\ pc = "send"
    /\ pc' \in {"sleep", "final"}
    /\ interrupted' = interrupted

\* C20: in the strict engine 0 <= consecutive_failures <= max_failures in
\* every reachable state, and so in every status report; the counter changes
\* only in a tick, by exactly +1 when the tick failed and to 0 when it
\* succeeded, and once it equals max_failures the loop has been left.
C20_CounterBounded ==
    /\ [](variant = "strict" =>
             /\ consecutive_failures \in 0..max_failures
             /\ get_status.consecutive_failures \in 0..max_failures
             /\ (consecutive_failures = max_failures
                    => pc \in {"final", "done"} /\ prev_failures = max_failures - 1)
             /\ (pc \in {"idle", "test"} => consecutive_failures = 0))
    /\ [][/\ StrictTickStep /\ ~send_keepalive_ok(last_outcome')
                => consecutive_failures' = consecutive_failures + 1
          /\ StrictTickStep /\ send_keepalive_ok(last_outcome')
                => consecutive_failures' = 0
          /\ variant = "strict" /\ ~StrictTickStep
                => consecutive_failures' = consecutive_failures]_vars

\* C20 witness: the tenth failed tick in a row has just returned, the counter
\* went from max_failures - 1 to max_failures and the loop is left
C20_Witness ==
    /\ variant = "strict"
    /\ pc = "final"
    /\ last_tick = "fail"
    /\ prev_failures = max_failures - 1
    /\ get_status.consecutive_failures = max_failures
    /\ get_status.running

====
